---- MODULE Spec2Model ----
(***************************************************************************)
(* Model of generate_js.py: the page bundler that reads the documentation  *)
(* files named by pages_map, builds embedded_pages and prints it as a      *)
(* JavaScript assignment.                                                  *)
(*                                                                         *)
(* Text is modelled as sequences of Unicode code points, file contents as  *)
(* sequences of bytes, and standard output as the sequence of code points  *)
(* written to it.                                                          *)
(***************************************************************************)
EXTENDS Integers, Sequences, FiniteSets, TLC

\* ---------------------------------------------------------------- bounds
\* Number of leading pages_map entries the run iterates over.
MaxPages == 2
\* Longest file content explored (bytes for raw files, code points for texts).
MaxLen == 2

\* ------------------------------------------------------- source constants
pages_map ==
  << [key |-> "home", filename |-> "README.md"],
     [key |-> "installation", filename |-> "installation.md"],
     [key |-> "getting-started", filename |-> "getting-started.md"],
     [key |-> "configuration", filename |-> "configuration.md"],
     [key |-> "factories", filename |-> "factories.md"],
     [key |-> "expectations", filename |-> "expectations.md"],
     [key |-> "authentication", filename |-> "authentication.md"],
     [key |-> "database-isolation", filename |-> "database-isolation.md"],
     [key |-> "browser-testing", filename |-> "browser-testing.md"],
     [key |-> "rest-api-testing", filename |-> "rest-api-testing.md"],
     [key |-> "ajax-testing", filename |-> "ajax-testing.md"],
     [key |-> "architecture-testing", filename |-> "architecture-testing.md"],
     [key |-> "mocking", filename |-> "mocking.md"],
     [key |-> "fixtures", filename |-> "fixtures.md"],
     [key |-> "snapshots", filename |-> "snapshots.md"],
     [key |-> "visual-regression", filename |-> "visual-regression.md"],
     [key |-> "accessibility-testing", filename |-> "accessibility-testing.md"],
     [key |-> "woocommerce", filename |-> "woocommerce.md"],
     [key |-> "gutenberg", filename |-> "gutenberg.md"],
     [key |-> "ci-cd", filename |-> "ci-cd.md"],
     [key |-> "migration", filename |-> "migration.md"] >>

Chars ==
  ("home" :> <<104, 111, 109, 101>>) @@
  ("README.md" :> <<82, 69, 65, 68, 77, 69, 46, 109, 100>>) @@
  ("installation" :> <<105, 110, 115, 116, 97, 108, 108, 97, 116, 105, 111, 110>>) @@
  ("installation.md" :> <<105, 110, 115, 116, 97, 108, 108, 97, 116, 105, 111, 110, 46, 109, 100>>) @@
  ("getting-started" :> <<103, 101, 116, 116, 105, 110, 103, 45, 115, 116, 97, 114, 116, 101, 100>>) @@
  ("getting-started.md" :> <<103, 101, 116, 116, 105, 110, 103, 45, 115, 116, 97, 114, 116, 101, 100, 46, 109, 100>>) @@
  ("configuration" :> <<99, 111, 110, 102, 105, 103, 117, 114, 97, 116, 105, 111, 110>>) @@
  ("configuration.md" :> <<99, 111, 110, 102, 105, 103, 117, 114, 97, 116, 105, 111, 110, 46, 109, 100>>) @@
  ("factories" :> <<102, 97, 99, 116, 111, 114, 105, 101, 115>>) @@
  ("factories.md" :> <<102, 97, 99, 116, 111, 114, 105, 101, 115, 46, 109, 100>>) @@
  ("expectations" :> <<101, 120, 112, 101, 99, 116, 97, 116, 105, 111, 110, 115>>) @@
  ("expectations.md" :> <<101, 120, 112, 101, 99, 116, 97, 116, 105, 111, 110, 115, 46, 109, 100>>) @@
  ("authentication" :> <<97, 117, 116, 104, 101, 110, 116, 105, 99, 97, 116, 105, 111, 110>>) @@
  ("authentication.md" :> <<97, 117, 116, 104, 101, 110, 116, 105, 99, 97, 116, 105, 111, 110, 46, 109, 100>>) @@
  ("database-isolation" :> <<100, 97, 116, 97, 98, 97, 115, 101, 45, 105, 115, 111, 108, 97, 116, 105, 111, 110>>) @@
  ("database-isolation.md" :> <<100, 97, 116, 97, 98, 97, 115, 101, 45, 105, 115, 111, 108, 97, 116, 105, 111, 110, 46, 109, 100>>) @@
  ("browser-testing" :> <<98, 114, 111, 119, 115, 101, 114, 45, 116, 101, 115, 116, 105, 110, 103>>) @@
  ("browser-testing.md" :> <<98, 114, 111, 119, 115, 101, 114, 45, 116, 101, 115, 116, 105, 110, 103, 46, 109, 100>>) @@
  ("rest-api-testing" :> <<114, 101, 115, 116, 45, 97, 112, 105, 45, 116, 101, 115, 116, 105, 110, 103>>) @@
  ("rest-api-testing.md" :> <<114, 101, 115, 116, 45, 97, 112, 105, 45, 116, 101, 115, 116, 105, 110, 103, 46, 109, 100>>) @@
  ("ajax-testing" :> <<97, 106, 97, 120, 45, 116, 101, 115, 116, 105, 110, 103>>) @@
  ("ajax-testing.md" :> <<97, 106, 97, 120, 45, 116, 101, 115, 116, 105, 110, 103, 46, 109, 100>>) @@
  ("architecture-testing" :> <<97, 114, 99, 104, 105, 116, 101, 99, 116, 117, 114, 101, 45, 116, 101, 115, 116, 105, 110, 103>>) @@
  ("architecture-testing.md" :> <<97, 114, 99, 104, 105, 116, 101, 99, 116, 117, 114, 101, 45, 116, 101, 115, 116, 105, 110, 103, 46, 109, 100>>) @@
  ("mocking" :> <<109, 111, 99, 107, 105, 110, 103>>) @@
  ("mocking.md" :> <<109, 111, 99, 107, 105, 110, 103, 46, 109, 100>>) @@
  ("fixtures" :> <<102, 105, 120, 116, 117, 114, 101, 115>>) @@
  ("fixtures.md" :> <<102, 105, 120, 116, 117, 114, 101, 115, 46, 109, 100>>) @@
  ("snapshots" :> <<115, 110, 97, 112, 115, 104, 111, 116, 115>>) @@
  ("snapshots.md" :> <<115, 110, 97, 112, 115, 104, 111, 116, 115, 46, 109, 100>>) @@
  ("visual-regression" :> <<118, 105, 115, 117, 97, 108, 45, 114, 101, 103, 114, 101, 115, 115, 105, 111, 110>>) @@
  ("visual-regression.md" :> <<118, 105, 115, 117, 97, 108, 45, 114, 101, 103, 114, 101, 115, 115, 105, 111, 110, 46, 109, 100>>) @@
  ("accessibility-testing" :> <<97, 99, 99, 101, 115, 115, 105, 98, 105, 108, 105, 116, 121, 45, 116, 101, 115, 116, 105, 110, 103>>) @@
  ("accessibility-testing.md" :> <<97, 99, 99, 101, 115, 115, 105, 98, 105, 108, 105, 116, 121, 45, 116, 101, 115, 116, 105, 110, 103, 46, 109, 100>>) @@
  ("woocommerce" :> <<119, 111, 111, 99, 111, 109, 109, 101, 114, 99, 101>>) @@
  ("woocommerce.md" :> <<119, 111, 111, 99, 111, 109, 109, 101, 114, 99, 101, 46, 109, 100>>) @@
  ("gutenberg" :> <<103, 117, 116, 101, 110, 98, 101, 114, 103>>) @@
  ("gutenberg.md" :> <<103, 117, 116, 101, 110, 98, 101, 114, 103, 46, 109, 100>>) @@
  ("ci-cd" :> <<99, 105, 45, 99, 100>>) @@
  ("ci-cd.md" :> <<99, 105, 45, 99, 100, 46, 109, 100>>) @@
  ("migration" :> <<109, 105, 103, 114, 97, 116, 105, 111, 110>>) @@
  ("migration.md" :> <<109, 105, 103, 114, 97, 116, 105, 111, 110, 46, 109, 100>>)

base_path == <<100, 111, 99, 115, 47, 103, 117, 105, 100, 101, 47>>  \* 'docs/guide/'

ErrorReading == <<69, 114, 114, 111, 114, 32, 114, 101, 97, 100, 105, 110, 103, 32>>  \* 'Error reading '

ColonSpace == <<58, 32>>  \* ': '

FallbackPrefix == <<35, 32, 69, 114, 114, 111, 114, 10, 67, 111, 117, 108, 100, 32, 110, 111, 116, 32, 108, 111, 97, 100, 32>>  \* '# Error\nCould not load '

JsPrefix == <<32, 32, 32, 32, 32, 32, 32, 32, 99, 111, 110, 115, 116, 32, 101, 109, 98, 101, 100, 100, 101, 100, 80, 97, 103, 101, 115, 32, 61, 32>>  \* '        const embeddedPages = '

JsSuffix == <<59, 10>>  \* ';\n'

Marker == <<99, 111, 110, 115, 116, 32, 101, 109, 98, 101, 100, 100, 101, 100, 80, 97, 103, 101, 115, 32, 61, 32>>  \* 'const embeddedPages = '

MsgENOENT == <<91, 69, 114, 114, 110, 111, 32, 50, 93, 32, 78, 111, 32, 115, 117, 99, 104, 32, 102, 105, 108, 101, 32, 111, 114, 32, 100, 105, 114, 101, 99, 116, 111, 114, 121, 58, 32, 39>>  \* "[Errno 2] No such file or directory: '"

MsgEIO == <<91, 69, 114, 114, 110, 111, 32, 53, 93, 32, 73, 110, 112, 117, 116, 47, 111, 117, 116, 112, 117, 116, 32, 101, 114, 114, 111, 114>>  \* '[Errno 5] Input/output error'

MsgDecode == <<39, 117, 116, 102, 45, 56, 39, 32, 99, 111, 100, 101, 99, 32, 99, 97, 110, 39, 116, 32, 100, 101, 99, 111, 100, 101, 32, 98, 121, 116, 101>>  \* "'utf-8' codec can't decode byte"

Indent4 == <<32, 32, 32, 32>>  \* '    '


\* str(e) of the exception caught on line 40, by exception class.
StrExc(e, filepath) ==
  CASE e = "FileNotFoundError" -> MsgENOENT \o filepath \o <<39>>
    [] e = "UnicodeDecodeError" -> MsgDecode
    [] OTHER -> MsgEIO

\* The registry the loop of line 34 iterates over, in dict (insertion) order.
Registry == SubSeq(pages_map, 1, MaxPages)

RegistryKeys == {Registry[i].key : i \in 1..Len(Registry)}

\* os.path.join(a, b) on POSIX paths.
PathJoin(a, b) ==
  IF Len(b) > 0 /\ b[1] = 47 THEN b
  ELSE IF Len(a) = 0 \/ a[Len(a)] = 47 THEN a \o b
  ELSE a \o <<47>> \o b

\* filepath of line 35 for a registry filename.
FilePath(filename) == PathJoin(base_path, Chars[filename])

\* Mutant: the fallback text names the joined path instead of the filename.
FallbackJoined(filename) == FallbackPrefix \o FilePath(filename)

\* f"# Error\nCould not load {filename}" of line 42.
Fallback(filename) == FallbackPrefix \o Chars[filename]

\* ------------------------------------------------------------ the dict
\* A Python dict keeps insertion order: a sequence of [key, value] items.
DictKeys(d) == {d[i].key : i \in 1..Len(d)}

DictHas(d, k) == \E i \in 1..Len(d) : d[i].key = k

DictGet(d, k) == d[CHOOSE i \in 1..Len(d) : d[i].key = k].value

\* Mutant: every assignment adds an item, even for a key already present.
DictSetAppend(d, k, v) == Append(d, [key |-> k, value |-> v])

\* d[k] = v: replaces the value in place when k is present, appends otherwise.
DictSet(d, k, v) ==
  IF DictHas(d, k)
  THEN [i \in 1..Len(d) |-> IF d[i].key = k THEN [key |-> k, value |-> v] ELSE d[i]]
  ELSE Append(d, [key |-> k, value |-> v])

\* ------------------------------------------------- reading a text file
\* Strict UTF-8 decoding of the bytes b from position i on (encoding='utf-8',
\* errors='strict'): ok is FALSE where Python raises UnicodeDecodeError.
Utf8Need(b0) ==
  IF b0 < 128 THEN 0
  ELSE IF b0 \in 194..223 THEN 1
  ELSE IF b0 \in 224..239 THEN 2
  ELSE IF b0 \in 240..244 THEN 3
  ELSE 0 - 1

Utf8CodePoint(b, i, need) ==
  CASE need = 0 -> b[i]
    [] need = 1 -> (b[i] - 192) * 64 + (b[i+1] - 128)
    [] need = 2 -> (b[i] - 224) * 4096 + (b[i+1] - 128) * 64 + (b[i+2] - 128)
    [] OTHER    -> (b[i] - 240) * 262144 + (b[i+1] - 128) * 4096
                   + (b[i+2] - 128) * 64 + (b[i+3] - 128)

Utf8Valid(cp, need) ==
  CASE need = 0 -> TRUE
    [] need = 1 -> cp >= 128
    [] need = 2 -> cp >= 2048 /\ cp \notin 55296..57343
    [] OTHER    -> cp >= 65536 /\ cp <= 1114111

RECURSIVE Utf8DecodeFrom(_, _, _)
Utf8DecodeFrom(b, i, acc) ==
  IF i > Len(b) THEN [ok |-> TRUE, chars |-> acc]
  ELSE LET need == Utf8Need(b[i]) IN
    IF need < 0 \/ i + need > Len(b)
       \/ \E j \in 1..need : b[i+j] \notin 128..191
    THEN [ok |-> FALSE, chars |-> <<>>]
    ELSE LET cp == Utf8CodePoint(b, i, need) IN
      IF ~Utf8Valid(cp, need) THEN [ok |-> FALSE, chars |-> <<>>]
      ELSE Utf8DecodeFrom(b, i + need + 1, Append(acc, cp))

Utf8Decode(b) == Utf8DecodeFrom(b, 1, <<>>)

\* Universal-newlines translation of open(..., 'r') with newline=None:
\* "\r\n" and a lone "\r" are both read as "\n".
RECURSIVE UniversalNewlinesFrom(_, _, _)
UniversalNewlinesFrom(s, i, acc) ==
  IF i > Len(s) THEN acc
  ELSE IF s[i] = 13
       THEN IF i < Len(s) /\ s[i+1] = 10
            THEN UniversalNewlinesFrom(s, i + 2, Append(acc, 10))
            ELSE UniversalNewlinesFrom(s, i + 1, Append(acc, 10))
       ELSE UniversalNewlinesFrom(s, i + 1, Append(acc, s[i]))

\* Mutant: only "\r\n" is translated, a lone "\r" is kept.
RECURSIVE CrLfOnlyFrom(_, _, _)
CrLfOnlyFrom(s, i, acc) ==
  IF i > Len(s) THEN acc
  ELSE IF s[i] = 13 /\ i < Len(s) /\ s[i+1] = 10
       THEN CrLfOnlyFrom(s, i + 2, Append(acc, 10))
       ELSE CrLfOnlyFrom(s, i + 1, Append(acc, s[i]))

UniversalNewlinesCrLfOnly(s) == CrLfOnlyFrom(s, 1, <<>>)

UniversalNewlines(s) == UniversalNewlinesFrom(s, 1, <<>>)

\* f.read() on a handle opened by line 37: the whole file, decoded and
\* newline-translated; ok is FALSE where it raises.
ReadText(bytes) ==
  LET d == Utf8Decode(bytes) IN
  [ok |-> d.ok, text |-> IF d.ok THEN UniversalNewlines(d.chars) ELSE <<>>]

\* Mutant: the clause catches FileNotFoundError only.
CaughtOnlyNotFound(e) == e = "FileNotFoundError"

\* except Exception (line 40): every exception class the try block can
\* raise here derives from Exception.
Caught(e) == e \in {"FileNotFoundError", "OSError", "UnicodeDecodeError"}

\* Mutant: the handle is closed on the success path only.
HandlesKeptOnError(handles, i, pending) ==
  IF pending = "none" THEN handles \ {i} ELSE handles

\* The file object's __exit__ closes the handle whether or not the body
\* raised; the descriptor is released even when close() itself reports a fault.
HandlesAfterExit(handles, i, pending) == handles \ {i}

\* --------------------------------------------------- the file system
\* A file of the docs directory: fault is the I/O fault the operating system
\* reports for it ("none", "missing", "read_error", "close_error"), bytes its
\* contents.
File(fault, bytes) == [fault |-> fault, bytes |-> bytes]

\* UTF-8 encoding of one code point / of a text (how a text gets on disk).
Utf8Encode(cp) ==
  IF cp < 128 THEN <<cp>>
  ELSE IF cp < 2048 THEN <<192 + (cp \div 64), 128 + (cp % 64)>>
  ELSE IF cp < 65536
       THEN <<224 + (cp \div 4096), 128 + ((cp \div 64) % 64), 128 + (cp % 64)>>
  ELSE <<240 + (cp \div 262144), 128 + ((cp \div 4096) % 64),
         128 + ((cp \div 64) % 64), 128 + (cp % 64)>>

RECURSIVE EncodeText(_)
EncodeText(t) ==
  IF t = <<>> THEN <<>> ELSE Utf8Encode(Head(t)) \o EncodeText(Tail(t))

\* Bytes of raw files: LF, CR, and the two bytes of U+00E9, each of which is
\* invalid UTF-8 on its own.
Bytes == {10, 13, 195, 169}

\* Code points of text files: a, double quote, backslash, LF, U+0001, DEL,
\* U+00E9 and U+1F600 (outside the BMP).
CodePoints == {97, 34, 92, 10, 1, 127, 233, 128512}

SeqsUpTo(S, n) == UNION {[1..k -> S] : k \in 0..n}

\* Contents of the one file explored in depth: any short byte string, valid
\* UTF-8 or not, and the encoding of any short text.
RichFiles ==
  {File("none", b) : b \in SeqsUpTo(Bytes, MaxLen)}
  \cup {File("none", EncodeText(t)) : t \in SeqsUpTo(CodePoints, MaxLen)}

\* The other files: readable and empty, or faulty in one of the three ways.
PlainFiles ==
  {File("none", <<>>), File("missing", <<>>),
   File("read_error", <<>>), File("close_error", <<>>)}

Filenames == {Registry[i].filename : i \in 1..Len(Registry)}

\* The docs directories explored: at most one file with rich contents, the
\* others plain, in every combination of faults.
FileSystems ==
  {[n \in Filenames |-> IF n = r THEN rich ELSE g[n]] :
     r \in Filenames, rich \in RichFiles \cup PlainFiles, g \in [Filenames -> PlainFiles]}

\* The docs directories in which every file independently is readable and
\* empty, undecodable, or faulty in one of the three ways.
FaultyFileSystems ==
  [Filenames -> PlainFiles \cup {File("none", <<195>>)}]

\* ---------------------------------------------------------------- state
VARIABLES
  fs,              \* the docs directory: filename -> File (never written)
  pc,              \* position of the script
  idx,             \* index of the registry item the loop is at
  embedded_pages,  \* the dict of line 32
  handles,         \* indices of the items whose file object is open
  content,         \* the local of line 38
  exc,             \* exception in flight ("none" when there is none)
  js_content,      \* the string of line 45
  stdout,          \* code points written to standard output
  stderr,          \* code points written to standard error
  exit_status,     \* -1 while running, then the process's exit status
  opens,           \* log of the paths passed to open(), in call order
  run,             \* 1 for the first run of the script, 2 for a second one
  prev_stdout      \* standard output of the first run, once it is over

vars == <<fs, pc, idx, embedded_pages, handles, content, exc, js_content,
          stdout, stderr, exit_status, opens, run, prev_stdout>>

NewLine == <<10>>

\* print(s): s and the default end="\n", to standard output.
PrintTo(out, s) == out \o s \o NewLine

\* State of a freshly started interpreter, before line 32 has run.
Fresh ==
  /\ pc = "loop"
  /\ idx = 0
  /\ embedded_pages = <<>>
  /\ handles = {}
  /\ content = <<>>
  /\ exc = "none"
  /\ js_content = <<>>
  /\ stdout = <<>>
  /\ stderr = <<>>
  /\ exit_status = 0 - 1
  /\ opens = <<>>

Init ==
  /\ fs \in FileSystems
  /\ Fresh
  /\ run = 1
  /\ prev_stdout = <<>>

\* A start in a docs directory of FaultyFileSystems.
InitFaults ==
  /\ fs \in FaultyFileSystems
  /\ Fresh
  /\ run = 1
  /\ prev_stdout = <<>>

Item == Registry[idx]

\* Mutant: a failed read is retried.
HandlerRetry(e) == "open"

\* Where control goes when exception e leaves the try block.
Handler(e) == IF Caught(e) THEN "except" ELSE "aborted"

\* Mutant: the items come in no fixed order (a container without a stable
\* iteration order).
ForNextAnyOrder ==
  /\ pc = "loop"
  /\ \E i \in 1..Len(Registry) :
       /\ ~DictHas(embedded_pages, Registry[i].key)
       /\ idx' = i
  /\ pc' = "open"
  /\ UNCHANGED <<fs, embedded_pages, handles, content, exc, js_content,
                 stdout, stderr, exit_status, opens, run, prev_stdout>>

\* for key, filename in pages_map.items(): the next item.
ForNext ==
  /\ pc = "loop"
  /\ idx < Len(Registry)
  /\ idx' = idx + 1
  /\ pc' = "open"
  /\ UNCHANGED <<fs, embedded_pages, handles, content, exc, js_content,
                 stdout, stderr, exit_status, opens, run, prev_stdout>>

\* The loop is exhausted: on to line 45.
ForExit ==
  /\ pc = "loop"
  /\ idx = Len(Registry)
  /\ pc' = "serialize"
  /\ UNCHANGED <<fs, idx, embedded_pages, handles, content, exc, js_content,
                 stdout, stderr, exit_status, opens, run, prev_stdout>>

\* filepath = os.path.join(...); open(filepath, 'r', encoding='utf-8').
Open ==
  /\ pc = "open"
  /\ opens' = Append(opens, FilePath(Item.filename))
  /\ IF fs[Item.filename].fault = "missing"
     THEN /\ exc' = "FileNotFoundError"
          /\ pc' = Handler("FileNotFoundError")
          /\ exit_status' = IF Caught("FileNotFoundError") THEN exit_status ELSE 1
          /\ UNCHANGED handles
     ELSE /\ handles' = handles \cup {idx}
          /\ pc' = "read"
          /\ UNCHANGED <<exc, exit_status>>
  /\ UNCHANGED <<fs, idx, embedded_pages, content, js_content, stdout, stderr,
                 run, prev_stdout>>

\* content = f.read(); a fault or a decode error leaves the with block
\* through the file object's __exit__.
Read ==
  /\ pc = "read"
  /\ LET file == fs[Item.filename]
         r == ReadText(file.bytes)
     IN IF file.fault = "read_error"
        THEN exc' = "OSError" /\ pc' = "exit" /\ UNCHANGED content
        ELSE IF ~r.ok
        THEN exc' = "UnicodeDecodeError" /\ pc' = "exit" /\ UNCHANGED content
        ELSE content' = r.text /\ pc' = "store" /\ UNCHANGED exc
  /\ UNCHANGED <<fs, idx, embedded_pages, handles, js_content, stdout, stderr,
                 exit_status, opens, run, prev_stdout>>

\* embedded_pages[key] = content.
Store ==
  /\ pc = "store"
  /\ embedded_pages' = DictSet(embedded_pages, Item.key, content)
  /\ pc' = "exit"
  /\ UNCHANGED <<fs, idx, handles, content, exc, js_content, stdout, stderr,
                 exit_status, opens, run, prev_stdout>>

\* End of the with block: __exit__ closes the file; an exception in flight,
\* or one raised by close() itself, then reaches the except clause.
Exit ==
  /\ pc = "exit"
  /\ handles' = HandlesAfterExit(handles, idx, exc)
  /\ LET e == IF fs[Item.filename].fault = "close_error" THEN "OSError" ELSE exc
     IN /\ exc' = e
        /\ pc' = IF e = "none" THEN "loop" ELSE Handler(e)
        /\ exit_status' = IF e = "none" \/ Caught(e) THEN exit_status ELSE 1
  /\ UNCHANGED <<fs, idx, embedded_pages, content, js_content, stdout, stderr,
                 opens, run, prev_stdout>>

\* The except clause: print the diagnostic, store the fallback text.
Except ==
  /\ pc = "except"
  /\ stdout' = PrintTo(stdout, ErrorReading \o FilePath(Item.filename)
                               \o ColonSpace \o StrExc(exc, FilePath(Item.filename)))
  /\ embedded_pages' = DictSet(embedded_pages, Item.key, Fallback(Item.filename))
  /\ exc' = "none"
  /\ pc' = "loop"
  /\ UNCHANGED <<fs, idx, handles, content, js_content, stderr, exit_status,
                 opens, run, prev_stdout>>

\* ------------------------------------------------------- json.dumps
\* One lowercase hexadecimal digit, as '{0:04x}'.format writes it.
HexDigit(n) == IF n < 10 THEN 48 + n ELSE 87 + n

\* \uXXXX for a 16-bit code unit.
EscapeU(n) ==
  <<92, 117, HexDigit(n \div 4096), HexDigit((n \div 256) % 16),
    HexDigit((n \div 16) % 16), HexDigit(n % 16)>>

\* Mutant: the backslash is written unescaped.
JsonEscapeCharNoBackslash(c) ==
  CASE c = 34 -> <<92, 34>>
    [] c = 10 -> <<92, 110>>
    [] c = 13 -> <<92, 114>>
    [] c = 9  -> <<92, 116>>
    [] OTHER  ->
         IF c \in 32..126 THEN <<c>>
         ELSE IF c < 65536 THEN EscapeU(c)
         ELSE EscapeU(55296 + ((c - 65536) \div 1024))
              \o EscapeU(56320 + ((c - 65536) % 1024))

\* json's encode_basestring_ascii (ensure_ascii=True) on one code point:
\* '"' and '\' and everything outside ' '..'~' are escaped, code points
\* beyond U+FFFF as a UTF-16 surrogate pair.
JsonEscapeChar(c) ==
  CASE c = 34 -> <<92, 34>>
    [] c = 92 -> <<92, 92>>
    [] c = 10 -> <<92, 110>>
    [] c = 13 -> <<92, 114>>
    [] c = 9  -> <<92, 116>>
    [] c = 12 -> <<92, 102>>
    [] c = 8  -> <<92, 98>>
    [] OTHER  ->
         IF c \in 32..126 THEN <<c>>
         ELSE IF c < 65536 THEN EscapeU(c)
         ELSE EscapeU(55296 + ((c - 65536) \div 1024))
              \o EscapeU(56320 + ((c - 65536) % 1024))

RECURSIVE JsonEscapeFrom(_, _, _)
JsonEscapeFrom(s, i, acc) ==
  IF i > Len(s) THEN acc
  ELSE JsonEscapeFrom(s, i + 1, acc \o JsonEscapeChar(s[i]))

\* A Python str as a JSON string literal.
JsonString(s) == <<34>> \o JsonEscapeFrom(s, 1, <<>>) \o <<34>>

\* json's key separator when indent is given.
KeySeparator == <<58, 32>>  \* ': '

\* One "key": "value" member at nesting level 1 of indent=4.
JsonMember(item) ==
  Indent4 \o JsonString(Chars[item.key]) \o KeySeparator \o JsonString(item.value)

RECURSIVE JsonMembersFrom(_, _, _)
JsonMembersFrom(d, i, acc) ==
  IF i > Len(d) THEN acc
  ELSE JsonMembersFrom(d, i + 1,
         acc \o (IF i = 1 THEN <<>> ELSE <<44, 10>>) \o JsonMember(d[i]))

\* json.dumps(d, indent=4) for a dict of str to str, in the dict's order.
JsonDumps(d) ==
  IF Len(d) = 0 THEN <<123, 125>>
  ELSE <<123, 10>> \o JsonMembersFrom(d, 1, <<>>) \o <<10, 125>>

\* The expression of line 45.
JsContent(d) == JsPrefix \o JsonDumps(d) \o JsSuffix

\* js_content = "        const embeddedPages = " + json.dumps(...) + ";\n"
Serialize ==
  /\ pc = "serialize"
  /\ js_content' = JsContent(embedded_pages)
  /\ pc' = "print"
  /\ UNCHANGED <<fs, idx, embedded_pages, handles, content, exc, stdout, stderr,
                 exit_status, opens, run, prev_stdout>>

\* print(js_content), then the interpreter falls off the end of the script.
PrintJs ==
  /\ pc = "print"
  /\ stdout' = PrintTo(stdout, js_content)
  /\ pc' = "done"
  /\ exit_status' = 0
  /\ UNCHANGED <<fs, idx, embedded_pages, handles, content, exc, js_content,
                 stderr, opens, run, prev_stdout>>

\* The script is started a second time on the same, unchanged docs directory.
Rerun ==
  /\ pc = "done"
  /\ run = 1
  /\ run' = 2
  /\ prev_stdout' = stdout
  /\ pc' = "loop"
  /\ idx' = 0
  /\ embedded_pages' = <<>>
  /\ handles' = {}
  /\ content' = <<>>
  /\ exc' = "none"
  /\ js_content' = <<>>
  /\ stdout' = <<>>
  /\ stderr' = <<>>
  /\ exit_status' = 0 - 1
  /\ opens' = <<>>
  /\ UNCHANGED fs

Next == ForNext \/ ForExit \/ Open \/ Read \/ Store \/ Exit \/ Except
        \/ Serialize \/ PrintJs

Spec == Init /\ [][Next]_vars

\* Runs over every combination of per-file faults; the interpreter keeps
\* executing statements until the script ends.
FairSpec == InitFaults /\ [][Next]_vars /\ WF_vars(Next)

NextTwice == Next \/ Rerun

\* Two consecutive runs of the script.
SpecTwice == Init /\ [][NextTwice]_vars

\* ------------------------------------------- a standard JSON parser
\* Value of a hexadecimal digit, -1 for any other character.
HexValue(c) ==
  IF c \in 48..57 THEN c - 48
  ELSE IF c \in 97..102 THEN c - 87
  ELSE IF c \in 65..70 THEN c - 55
  ELSE 0 - 1

\* The four hex digits at s[i..i+3] as a number, -1 when malformed.
Hex4(s, i) ==
  IF i + 3 > Len(s) \/ \E j \in 0..3 : HexValue(s[i+j]) < 0 THEN 0 - 1
  ELSE HexValue(s[i]) * 4096 + HexValue(s[i+1]) * 256
       + HexValue(s[i+2]) * 16 + HexValue(s[i+3])

\* The character a one-letter escape stands for, -1 when there is none.
SimpleEscape(c) ==
  CASE c = 34 -> 34  [] c = 92 -> 92  [] c = 47 -> 47
    [] c = 110 -> 10 [] c = 114 -> 13 [] c = 116 -> 9
    [] c = 98 -> 8   [] c = 102 -> 12 [] OTHER -> 0 - 1

ParseFail == [ok |-> FALSE, val |-> <<>>, next |-> 0]

\* Scans a string body from s[i] to its closing quote; next is the position
\* after the quote. A \uD8xx \uDCxx pair is one code point.
RECURSIVE ScanString(_, _, _)
ScanString(s, i, acc) ==
  IF i > Len(s) THEN ParseFail
  ELSE IF s[i] = 34 THEN [ok |-> TRUE, val |-> acc, next |-> i + 1]
  ELSE IF s[i] < 32 THEN ParseFail
  ELSE IF s[i] # 92 THEN ScanString(s, i + 1, Append(acc, s[i]))
  ELSE IF i + 1 > Len(s) THEN ParseFail
  ELSE IF s[i+1] # 117
       THEN IF SimpleEscape(s[i+1]) < 0 THEN ParseFail
            ELSE ScanString(s, i + 2, Append(acc, SimpleEscape(s[i+1])))
  ELSE LET u == Hex4(s, i + 2) IN
       IF u < 0 THEN ParseFail
       ELSE IF u \in 55296..56319 /\ i + 7 <= Len(s)
               /\ s[i+6] = 92 /\ s[i+7] = 117
               /\ Hex4(s, i + 8) \in 56320..57343
            THEN ScanString(s, i + 12,
                   Append(acc, 65536 + (u - 55296) * 1024 + (Hex4(s, i + 8) - 56320)))
            ELSE ScanString(s, i + 6, Append(acc, u))

RECURSIVE SkipSpace(_, _)
SkipSpace(s, i) ==
  IF i <= Len(s) /\ s[i] \in {32, 10, 13, 9} THEN SkipSpace(s, i + 1) ELSE i

ParseString(s, i) ==
  IF i <= Len(s) /\ s[i] = 34 THEN ScanString(s, i + 1, <<>>) ELSE ParseFail

\* Members of an object from s[i] on, up to and including the closing brace.
RECURSIVE ParseMembers(_, _, _)
ParseMembers(s, i, acc) ==
  LET k == ParseString(s, SkipSpace(s, i)) IN
  IF ~k.ok THEN ParseFail
  ELSE LET c == SkipSpace(s, k.next) IN
    IF c > Len(s) \/ s[c] # 58 THEN ParseFail
    ELSE LET v == ParseString(s, SkipSpace(s, c + 1)) IN
      IF ~v.ok THEN ParseFail
      ELSE LET e == SkipSpace(s, v.next)
               items == Append(acc, [key |-> k.val, value |-> v.val])
           IN IF e > Len(s) THEN ParseFail
              ELSE IF s[e] = 125 THEN [ok |-> TRUE, val |-> items, next |-> e + 1]
              ELSE IF s[e] = 44 THEN ParseMembers(s, e + 1, items)
              ELSE ParseFail

\* Parses a text that is one JSON object of string members: ok and the
\* members in order, or not ok.
ParseJson(s) ==
  LET b == SkipSpace(s, 1) IN
  IF b > Len(s) \/ s[b] # 123 THEN ParseFail
  ELSE LET m == IF SkipSpace(s, b + 1) <= Len(s) /\ s[SkipSpace(s, b + 1)] = 125
                THEN [ok |-> TRUE, val |-> <<>>, next |-> SkipSpace(s, b + 1) + 1]
                ELSE ParseMembers(s, b + 1, <<>>)
       IN IF m.ok /\ SkipSpace(s, m.next) = Len(s) + 1 THEN m ELSE ParseFail

\* The text of out between the first "const embeddedPages = " and the last ";".
LiteralPortion(out) ==
  LET starts == {i \in 1..(Len(out) - Len(Marker) + 1) : SubSeq(out, i, i + Len(Marker) - 1) = Marker}
      semis == {i \in 1..Len(out) : out[i] = 59}
  IN IF starts = {} \/ semis = {} THEN <<>>
     ELSE LET a == CHOOSE i \in starts : \A j \in starts : i <= j
              z == CHOOSE i \in semis : \A j \in semis : i >= j
          IN SubSeq(out, a + Len(Marker), z - 1)

\* ------------------------------------------------------------- claims
AfterLoop == pc \in {"serialize", "print", "done"}

Indices == 1..Len(Registry)

FileOf(i) == fs[Registry[i].filename]

\* The read of entry i meets no fault: the file opens, reads, decodes and closes.
ReadsCleanly(i) == FileOf(i).fault = "none" /\ Utf8Decode(FileOf(i).bytes).ok

\* C1: once the loop is over, the keys of embedded_pages are exactly the
\* registry's identifiers, each present once, whatever files failed.
KeySetEqualsRegistry ==
  AfterLoop =>
    /\ DictKeys(embedded_pages) = RegistryKeys
    /\ Len(embedded_pages) = Len(Registry)

KeySetWitness ==
  /\ pc = "done"
  /\ \E i \in Indices : FileOf(i).fault = "close_error"
  /\ \E i \in Indices : FileOf(i).fault = "missing"
  /\ DictKeys(embedded_pages) = RegistryKeys

\* s with every occurrence of the pair <<a, b>> replaced by <<c>>.
RECURSIVE ReplacePair(_, _, _, _)
ReplacePair(s, a, b, c) ==
  IF Len(s) = 0 THEN s
  ELSE IF Len(s) >= 2 /\ s[1] = a /\ s[2] = b
       THEN <<c>> \o ReplacePair(SubSeq(s, 3, Len(s)), a, b, c)
       ELSE <<s[1]>> \o ReplacePair(Tail(s), a, b, c)

\* s with every CR LF pair, then every remaining CR, turned into LF.
NewlinesAsLf(s) ==
  LET t == ReplacePair(s, 13, 10, 10)
  IN [i \in 1..Len(t) |-> IF t[i] = 13 THEN 10 ELSE t[i]]

FallbackStoredOnFailure ==
  AfterLoop =>
    \A i \in Indices :
      ~ReadsCleanly(i) =>
        DictGet(embedded_pages, Registry[i].key)
          = FallbackPrefix \o Chars[Registry[i].filename]

FallbackWitness ==
  /\ pc = "done"
  /\ \E i \in Indices : FileOf(i).fault = "missing"
  /\ \E i \in Indices : FileOf(i).fault = "none" /\ ~Utf8Decode(FileOf(i).bytes).ok

\* C4: whatever files fail, the run reaches the end of the script with exit
\* status 0, every registry entry attempted and present in what was printed.
RunCompletes ==
  <>(/\ pc = "done"
     /\ exit_status = 0
     /\ Len(opens) = Len(Registry)
     /\ DictKeys(embedded_pages) = RegistryKeys
     /\ js_content = JsPrefix \o JsonDumps(embedded_pages) \o JsSuffix
     /\ Len(stdout) >= Len(js_content) + 1
     /\ SubSeq(stdout, Len(stdout) - Len(js_content), Len(stdout) - 1) = js_content)

RunCompletesWitness ==
  /\ pc = "done"
  /\ exit_status = 0
  /\ FileOf(1).fault # "none"
  /\ ReadsCleanly(Len(Registry))
  /\ DictHas(embedded_pages, Registry[Len(Registry)].key)

\* C5: standard output carries the embeddedPages statement and nothing else,
\* diagnostics of failed reads being written elsewhere.
StdoutCarriesOnlyTheStatement ==
  pc = "done" => stdout \in {js_content, js_content \o NewLine}

\* C6: parsing the literal between "const embeddedPages = " and the final
\* ";" gives back the keys and values of embedded_pages.
SerializationRoundTrips ==
  pc \in {"print", "done"} =>
    LET p == ParseJson(LiteralPortion(js_content)) IN
      /\ p.ok
      /\ Len(p.val) = Len(embedded_pages)
      /\ {<<p.val[i].key, p.val[i].value>> : i \in 1..Len(p.val)}
           = {<<Chars[embedded_pages[i].key], embedded_pages[i].value>> :
                i \in 1..Len(embedded_pages)}

RoundTripWitness ==
  /\ pc = "done"
  /\ \E i \in 1..Len(embedded_pages) :
       LET v == embedded_pages[i].value IN
         /\ Len(v) >= 2
         /\ v[1] \in {34, 92, 10, 1}
         /\ v[2] \in {233, 128512}
  /\ ParseJson(LiteralPortion(js_content)).ok

\* C7: what the run writes to standard output is the serialized string and
\* nothing more: nothing before it, no newline after its own.
StdoutIsExactlyJsContent ==
  pc = "done" => stdout = JsPrefix \o JsonDumps(embedded_pages) \o JsSuffix

\* C8: a second run on the unchanged docs directory prints byte for byte
\* what the first printed, with the keys in registry order in both.
RerunPrintsTheSame ==
  pc = "done" =>
    /\ [i \in 1..Len(embedded_pages) |-> embedded_pages[i].key]
         = [i \in Indices |-> Registry[i].key]
    /\ run = 2 => stdout = prev_stdout

RerunWitness ==
  /\ pc = "done"
  /\ run = 2
  /\ Len(prev_stdout) > 0
  /\ \E i \in Indices : FileOf(i).fault = "missing"
  /\ \E i \in Indices : ReadsCleanly(i) /\ Len(FileOf(i).bytes) > 0

\* Every item of d is still in d' with the same value.
ItemsKept(d, e) == \A i \in 1..Len(d) : i <= Len(e) /\ e[i] = d[i]

\* C9 as stated: a value stored in embedded_pages is never overwritten.
StoredValueNeverOverwritten ==
  [][ItemsKept(embedded_pages, embedded_pages')]_vars

\* open() has been called once for each entry reached, in registry order.
OpenedOnceInOrder ==
  /\ Len(opens) = IF pc = "open" THEN idx - 1 ELSE idx
  /\ \A i \in 1..Len(opens) : opens[i] = base_path \o Chars[Registry[i].filename]

\* The entries before the one the loop is at all have their value.
EarlierEntriesStored ==
  \A i \in Indices :
    (i < idx \/ (i = idx /\ pc = "loop") \/ AfterLoop)
      => DictHas(embedded_pages, Registry[i].key)

\* C9 (amended): files are opened one after the other in registry order, each
\* once; an entry is read only when all earlier entries have their value; a
\* value is never changed once the loop has left its entry, and within its
\* entry only by the except clause replacing it with the fallback text.
SequentialOnceAndFinal ==
  /\ [](OpenedOnceInOrder /\ EarlierEntriesStored)
  /\ [][\/ ItemsKept(embedded_pages, embedded_pages')
        \/ /\ pc = "except"
           /\ \A i \in 1..Len(embedded_pages) :
                /\ i <= Len(embedded_pages')
                /\ embedded_pages'[i].key = embedded_pages[i].key
                /\ \/ embedded_pages'[i] = embedded_pages[i]
                   \/ /\ embedded_pages[i].key = Registry[idx].key
                      /\ embedded_pages'[i].value
                           = FallbackPrefix \o Chars[Registry[idx].filename]]_vars

SequentialWitness ==
  /\ pc = "done"
  /\ FileOf(1).fault = "close_error"
  /\ Len(opens) = Len(Registry)
  /\ DictGet(embedded_pages, Registry[1].key)
       = FallbackPrefix \o Chars[Registry[1].filename]

\* C10: at most one file is open at a time, and none is open outside the
\* with block: not when the next entry starts, not in the except clause, not
\* when the output is serialized and printed.
HandlesReleased ==
  /\ Cardinality(handles) <= 1
  /\ handles \subseteq {idx}
  /\ pc \notin {"read", "store", "exit"} => handles = {}

HandlesWitness ==
  /\ pc = "except"
  /\ exc = "UnicodeDecodeError"
  /\ Len(opens) = idx
  /\ handles = {}

====
